---- MODULE Spec2Model ----
(***************************************************************************)
(* Model of bacpypes_helpers.py: the synchronous read facade               *)
(* (get_property_value / BACnetClient), the request lifecycle bridge       *)
(* (IocbHelper / _init_iocb), the COV subscription registry and dispatcher *)
(* (SubscriptionContext / SubscribeCOVApplication) and the timeout-driven  *)
(* run loop (run_bacpypes_for_x_seconds / do_cov_subscription), and a      *)
(* process that calls the facade several times, from one thread as main.py *)
(* does or from several threads.                                           *)
(*                                                                         *)
(* The bacpypes event loop (core.run / core.deferred / core.stop), the     *)
(* transport that resolves IOCBs and the peers that send COV notifications *)
(* are the environment: they are modelled by what the library does at the  *)
(* places the source calls it.                                             *)
(***************************************************************************)
EXTENDS Integers, Sequences, FiniteSets, TLC

(***************************************************************************)
(* Bounds of the model.                                                    *)
(***************************************************************************)
MaxTags == 2
MaxElems == 2
MaxNotif == 2
MaxCtx == 2
MaxDuration == 1
MaxOvershoot == 1
MaxCalls == 2

(***************************************************************************)
(* Python values.                                                          *)
(***************************************************************************)
None == [py |-> "None"]
PyFloat(d) == [py |-> "float", v |-> d]
PyInt(d) == [py |-> "int", v |-> d]

\* sequences over S of length at most n
SeqUpTo(S, n) == UNION {[1..k -> S] : k \in 0..n}

(***************************************************************************)
(* Tags of an encoded value (bacpypes Tag): application tags carry their   *)
(* datatype in the tag number, context tags do not.                        *)
(***************************************************************************)
Tags ==
    { [cls |-> "app", num |-> "Real", data |-> 1],
      [cls |-> "app", num |-> "Unsigned", data |-> 1],
      [cls |-> "ctx", num |-> "0", data |-> 1] }

ObjTypes == {"analogValue", "multiStateValue", "proprietary"}
PropIds == {"presentValue", "shedDuration", "requestedShedLevel"}

\* bacpypes.object.get_datatype as called at line 76: the datatype class
\* registered for (object type, property identifier), None when unknown.
get_datatype(objType, propid) ==
    CASE objType = "analogValue" /\ propid = "presentValue" -> "Real"
      [] objType = "multiStateValue" /\ propid = "presentValue" -> "Unsigned"
      [] OTHER -> "None"

\* the python value of an application tag decoded as its own datatype
AtomicValue(tag) ==
    IF tag.num = "Real" THEN PyFloat(tag.data) ELSE PyInt(tag.data)

\* Any.cast_out(datatype) as called at line 82: exactly one tag, which has
\* to be the application tag of the datatype; anything else raises.
cast_out(tagList, datatype) ==
    IF Len(tagList) # 1
    THEN [raised |-> "ValueError", value |-> None]
    ELSE IF tagList[1].cls # "app" \/ tagList[1].num # datatype
         THEN [raised |-> "InvalidTag", value |-> None]
         ELSE [raised |-> "", value |-> AtomicValue(tagList[1])]

\* str() of a python value
str(pv) ==
    CASE pv.py = "float" -> ToString(pv.v) \o ".0"
      [] pv.py = "int" -> ToString(pv.v)
      [] OTHER -> "None"

Errors == {"timeout", "abort"}

\* proc_id: int = 1000 of SubscriptionContext.__init__
DefaultProcId == 1000
ProcIds == {DefaultProcId, 7}
Addresses == {"dev", "other"}
ObjIds == {"analogValue:1", "analogValue:2"}

\* the threads of a process that call the facade
Threads == {1, 2}
NoThread == [pc |-> "off", sid |-> 0, left |-> 0, loop |-> "top",
             helper |-> "idle"]

\* time.sleep(1) of stop_after_x_seconds
PollInterval == 1

NoNotification == [kind |-> "none", pidKnown |-> FALSE, matched |-> FALSE]

NoPDU == [pdu |-> "none", invokeID |-> 0, errorClass |-> "", errorCode |-> ""]
SimpleAckPDU(id) == [NoPDU EXCEPT !.pdu = "SimpleAck", !.invokeID = id]
ErrorPDU(id, class, code) ==
    [pdu |-> "Error", invokeID |-> id, errorClass |-> class,
     errorCode |-> code]

\* the ReadPropertyACK payloads the transport can hand back
Responses ==
    [objectIdentifier : ObjTypes, propertyValue : SeqUpTo(Tags, MaxTags)]

NoResponse == [objectIdentifier |-> "", propertyValue |-> <<>>]

VARIABLES
    running,        \* bacpypes.core.running
    deferredFns,    \* bacpypes.core.deferredFns
    loopPc,         \* position of the thread that is inside run()
    callerPc,       \* position of the caller of make_request_read_property
    workerPc,       \* position of the executor thread (_do_read_property)
    request,        \* the ReadPropertyRequest of the call
    iocb,           \* the IOCB of the call
    ret,            \* what the body of the with-statement produced
    future,         \* the executor's future
    callResult,     \* what make_request_read_property gave its caller
    submitted,      \* number of times request_io handed the IOCB over
    errorLog,       \* records emitted at level ERROR
    stopRequests,   \* number of deferred(stop) calls so far
    covPc,          \* position of the caller of do_cov_subscription
    wdPc,           \* position of the thread stop_after_x_seconds
    x,              \* the duration given to run_bacpypes_for_x_seconds
    now,            \* time.time()
    start_time,     \* start_time of run_bacpypes_for_x_seconds
    subscription_context,  \* the registry: process identifier -> context
    contexts,       \* the SubscriptionContext objects, in creation order
    subIocb,        \* state of the IOCB of send_subscription
    response,       \* the response the application sent last
    nDelivered,     \* number of notifications handed to the application
    lastNotification,  \* kind of the latest notification and how it matched
    expected,       \* decodable target values of the matching notifications
    origins,        \* for each context, where each of its values came from
    returned,       \* what do_cov_subscription returned
    th,             \* the threads of the process that call the facade
    sessions,       \* the facade calls made so far, in the order they began
    bound,          \* the local ports bound by the clients that are live
    lastStop        \* the session whose stop() cleared running last

loopVars == <<running, deferredFns, loopPc>>
readVars == <<callerPc, workerPc, request, iocb, ret, future, callResult,
              submitted>>
timeVars == <<x, now, start_time>>
regVars == <<subscription_context, contexts, response, nDelivered, lastNotification, expected, origins>>
covVars == <<covPc, wdPc, timeVars, regVars, subIocb, returned>>
procVars == <<th, sessions, bound, lastStop>>
vars == <<running, deferredFns, loopPc, callerPc, workerPc, request, iocb,
          ret, future, callResult, submitted, errorLog, stopRequests,
          covVars, procVars>>

NoOutcome == [kind |-> "none", exc |-> "", value |-> None]
Returned(v) == [kind |-> "value", exc |-> "", value |-> v]
Raised(e) == [kind |-> "exception", exc |-> e, value |-> None]

\* callback with the datatype test of lines 78-79 left out: an unknown
\* datatype yields None instead of raising
callback_swallow(apdu, property_identifier) ==
    LET datatype == get_datatype(apdu.objectIdentifier, property_identifier)
    IN  IF datatype = "None"
        THEN Returned(None)
        ELSE LET c == cast_out(apdu.propertyValue, datatype)
             IN  IF c.raised # "" THEN Raised(c.raised)
                 ELSE Returned(c.value)

(***************************************************************************)
(* BACnetClient._do_read_property.callback (lines 75-84).                  *)
(***************************************************************************)
callback(apdu, property_identifier) ==
    LET datatype == get_datatype(apdu.objectIdentifier, property_identifier)
    IN  IF datatype = "None"
        THEN Raised("TypeError")
        ELSE LET c == cast_out(apdu.propertyValue, datatype)
             IN  IF c.raised # "" THEN Raised(c.raised)
                 ELSE Returned(c.value)

\* _init_iocb with the return of line 69 dropped: the callback's value is
\* computed and lost, line 72 returns None
init_iocb_body_noreturn(io, property_identifier) ==
    IF io.ioError # ""
    THEN [out |-> Returned(None), logged |-> <<io.ioError>>]
    ELSE IF io.ioResponse # NoResponse
         THEN LET c == callback(io.ioResponse, property_identifier)
              IN  [out |-> IF c.kind = "value" THEN Returned(None) ELSE c,
                   logged |-> <<>>]
         ELSE [out |-> Returned(None), logged |-> <<"something wrong">>]

\* _init_iocb that logs the error and raises it again
init_iocb_body_reraise(io, property_identifier) ==
    IF io.ioError # ""
    THEN [out |-> Raised(io.ioError), logged |-> <<io.ioError>>]
    ELSE IF io.ioResponse # NoResponse
         THEN [out |-> callback(io.ioResponse, property_identifier),
               logged |-> <<>>]
         ELSE [out |-> Returned(None), logged |-> <<"something wrong">>]

(***************************************************************************)
(* Body of the with-statement of BACnetClient._init_iocb (lines 65-72):    *)
(* the outcome of the body and the ERROR records it emits.                 *)
(***************************************************************************)
init_iocb_body(io, property_identifier) ==
    IF io.ioError # ""
    THEN [out |-> Returned(None), logged |-> <<io.ioError>>]
    ELSE IF io.ioResponse # NoResponse
         THEN [out |-> callback(io.ioResponse, property_identifier),
               logged |-> <<>>]
         ELSE [out |-> Returned(None), logged |-> <<"something wrong">>]

\* deferred(fn) of bacpypes.core: queue fn for the thread inside run()
deferred(fn) == deferredFns' = Append(deferredFns, fn)

(***************************************************************************)
(* make_request_read_property (lines 94-106), caller thread.               *)
(***************************************************************************)
\* line 104: executor.submit(self._do_read_property, ...)
CallerSubmit ==
    /\ callerPc = "init"
    /\ callerPc' = "submitted"
    /\ workerPc' = "enter"
    /\ future' = [NoOutcome EXCEPT !.kind = "pending"]
    /\ UNCHANGED <<covVars, procVars, loopVars, request, iocb, ret, callResult, submitted,
                   errorLog, stopRequests>>

\* run() that starts from an empty queue: what was deferred before the
\* loop started is dropped
CallerRun_clear ==
    /\ callerPc = "submitted"
    /\ callerPc' = "run"
    /\ running' = TRUE
    /\ loopPc' = "top"
    /\ deferredFns' = <<>>
    /\ UNCHANGED <<covVars, procVars, workerPc, request, iocb, ret, future,
                   callResult, submitted, errorLog, stopRequests>>

\* line 105: run() is entered; core.run sets running and starts looping
CallerRun ==
    /\ callerPc = "submitted"
    /\ callerPc' = "run"
    /\ running' = TRUE
    /\ loopPc' = "top"
    /\ UNCHANGED <<covVars, procVars, deferredFns, workerPc, request, iocb, ret, future,
                   callResult, submitted, errorLog, stopRequests>>

\* future.result() that does not wait: it hands over whatever the future
\* holds when run() has returned
CallerResult_nowait ==
    /\ callerPc = "result"
    /\ callResult' = future
    /\ callerPc' = "done"
    /\ UNCHANGED <<covVars, procVars, loopVars, workerPc, request, iocb, ret, future, submitted,
                   errorLog, stopRequests>>

\* line 106: future.result() waits for the worker and hands over its
\* return value or re-raises its exception
CallerResult ==
    /\ callerPc = "result"
    /\ future.kind \in {"value", "exception"}
    /\ callResult' = future
    /\ callerPc' = "done"
    /\ UNCHANGED <<covVars, procVars, loopVars, workerPc, request, iocb, ret, future, submitted,
                   errorLog, stopRequests>>

(***************************************************************************)
(* _do_read_property / _init_iocb / IocbHelper (lines 38-48, 63-86),       *)
(* worker thread.                                                          *)
(***************************************************************************)
\* lines 44: __enter__ defers request_io(iocb)
IocbHelper_enter ==
    /\ workerPc = "enter"
    /\ deferred("request_io")
    /\ workerPc' = "wait"
    /\ UNCHANGED <<covVars, procVars, running, loopPc, callerPc, request, iocb, ret, future,
                   callResult, submitted, errorLog, stopRequests>>

\* line 45: iocb.wait() returns once the IOCB is complete; lines 65-72 run
WorkerBody ==
    /\ workerPc = "wait"
    /\ iocb.ioComplete
    /\ LET b == init_iocb_body(iocb, request.propertyIdentifier)
       IN  /\ ret' = b.out
           /\ errorLog' = errorLog \o b.logged
    /\ workerPc' = "exit"
    /\ UNCHANGED <<covVars, procVars, loopVars, callerPc, request, iocb, future, callResult,
                   submitted, stopRequests>>

\* stop deferred at the end of the body instead of in __exit__: an
\* exception in the body skips it
IocbHelper_exit_unguarded ==
    /\ workerPc = "exit"
    /\ IF ret.kind = "exception"
       THEN UNCHANGED <<deferredFns, stopRequests>>
       ELSE deferred("stop") /\ stopRequests' = stopRequests + 1
    /\ workerPc' = "return"
    /\ UNCHANGED <<covVars, procVars, running, loopPc, callerPc, request, iocb, ret, future,
                   callResult, submitted, errorLog>>

\* line 48: __exit__ defers stop on every way out of the body
IocbHelper_exit ==
    /\ workerPc = "exit"
    /\ deferred("stop")
    /\ stopRequests' = stopRequests + 1
    /\ workerPc' = "return"
    /\ UNCHANGED <<covVars, procVars, running, loopPc, callerPc, request, iocb, ret, future,
                   callResult, submitted, errorLog>>

\* _do_read_property returns (line 86): the return value or the exception
\* of the body completes the executor's future
WorkerReturn ==
    /\ workerPc = "return"
    /\ future' = ret
    /\ workerPc' = "done"
    /\ UNCHANGED <<covVars, procVars, loopVars, callerPc, request, iocb, ret, callResult,
                   submitted, errorLog, stopRequests>>

(***************************************************************************)
(* The thread inside bacpypes.core.run (called at line 105).               *)
(***************************************************************************)
InRun == callerPc = "run" \/ covPc = "run"

\* running is false at the test: run() returns to line 106
RunReturn ==
    /\ callerPc = "run" /\ loopPc = "top" /\ ~running
    /\ callerPc' = "result"
    /\ UNCHANGED <<covVars, procVars, loopVars, workerPc, request, iocb, ret, future,
                   callResult, submitted, errorLog, stopRequests>>

\* while running: the socket and timer activity of one more pass, in which
\* nothing happens
LoopIdle ==
    /\ InRun /\ loopPc = "top" /\ running
    /\ loopPc' = "drain"
    /\ UNCHANGED <<covVars, procVars, running, deferredFns, readVars, errorLog, stopRequests>>

\* while running: the socket and timer activity of one more pass, in which
\* the transport resolves the pending IOCB with an error (abort), a
\* response (complete) or neither
TransportResolve ==
    /\ callerPc = "run" /\ loopPc = "top" /\ running
    /\ iocb.ioState = "pending"
    /\ \/ \E e \in Errors :
            iocb' = [iocb EXCEPT !.ioState = "aborted", !.ioError = e,
                                 !.ioComplete = TRUE]
       \/ \E r \in Responses :
            iocb' = [iocb EXCEPT !.ioState = "completed", !.ioResponse = r,
                                 !.ioComplete = TRUE]
       \/ iocb' = [iocb EXCEPT !.ioState = "completed", !.ioComplete = TRUE]
    /\ loopPc' = "drain"
    /\ UNCHANGED <<covVars, procVars, running, deferredFns, callerPc, workerPc, request, ret,
                   future, callResult, submitted, errorLog, stopRequests>>

\* the deferred functions are called in the order they were queued
DrainRequestIo ==
    /\ InRun /\ loopPc = "drain"
    /\ deferredFns # <<>> /\ Head(deferredFns) = "request_io"
    /\ deferredFns' = Tail(deferredFns)
    /\ iocb' = [iocb EXCEPT !.ioState = "pending"]
    /\ submitted' = submitted + 1
    /\ UNCHANGED <<covVars, procVars, running, loopPc, callerPc, workerPc, request, ret, future,
                   callResult, errorLog, stopRequests>>

DrainStop ==
    /\ InRun /\ loopPc = "drain"
    /\ deferredFns # <<>> /\ Head(deferredFns) = "stop"
    /\ deferredFns' = Tail(deferredFns)
    /\ running' = FALSE
    /\ UNCHANGED <<covVars, procVars, loopPc, readVars, errorLog, stopRequests>>

DrainDone ==
    /\ InRun /\ loopPc = "drain"
    /\ deferredFns = <<>>
    /\ loopPc' = "top"
    /\ UNCHANGED <<covVars, procVars, running, deferredFns, readVars, errorLog, stopRequests>>

\* the facade is not called from several threads or several times
ProcIdle ==
    /\ th = [t \in Threads |-> NoThread]
    /\ sessions = <<>> /\ bound = {} /\ lastStop = 0

\* no subscription session, no registry
CovIdle ==
    /\ covPc = "idle" /\ wdPc = "idle"
    /\ x = 0 /\ now = 0 /\ start_time = 0
    /\ subscription_context = [p \in ProcIds |-> 0]
    /\ contexts = <<>>
    /\ subIocb = "idle"
    /\ response = NoPDU /\ nDelivered = 0
    /\ lastNotification = NoNotification
    /\ expected = <<>> /\ origins = <<>>
    /\ returned = <<>>

(***************************************************************************)
(* One get_property_value call (lines 258-266).                            *)
(***************************************************************************)
Init ==
    /\ running = FALSE
    /\ deferredFns = <<>>
    /\ loopPc = "top"
    /\ callerPc = "init"
    /\ workerPc = "idle"
    /\ request \in [objectIdentifier : ObjTypes, propertyIdentifier : PropIds]
    /\ iocb = [ioState |-> "idle", ioError |-> "", ioResponse |-> NoResponse,
               ioComplete |-> FALSE]
    /\ ret = NoOutcome
    /\ future = NoOutcome
    /\ callResult = NoOutcome
    /\ submitted = 0
    /\ errorLog = <<>>
    /\ stopRequests = 0
    /\ CovIdle /\ ProcIdle

Next ==
    \/ CallerSubmit \/ CallerRun \/ CallerResult
    \/ IocbHelper_enter \/ WorkerBody \/ IocbHelper_exit \/ WorkerReturn
    \/ RunReturn \/ LoopIdle \/ TransportResolve
    \/ DrainRequestIo \/ DrainStop \/ DrainDone

Spec == Init /\ [][Next]_vars

\* the three threads of a read are scheduled by the operating system: each
\* of them keeps taking steps while it can
CallerNext == CallerSubmit \/ CallerRun \/ CallerResult
WorkerNext ==
    IocbHelper_enter \/ WorkerBody \/ IocbHelper_exit \/ WorkerReturn
LoopNext ==
    \/ RunReturn \/ LoopIdle \/ TransportResolve
    \/ DrainRequestIo \/ DrainStop \/ DrainDone

FairSpec ==
    /\ Init /\ [][Next]_vars
    /\ WF_vars(CallerNext) /\ WF_vars(WorkerNext) /\ WF_vars(LoopNext)

(***************************************************************************)
(* Properties of the read facade.                                          *)
(***************************************************************************)
ResolvedWithResponse == iocb.ioError = "" /\ iocb.ioResponse # NoResponse
ResolvedWithError == iocb.ioError # ""

\* the transform of a read: the response's property value cast with the
\* datatype of (response's object type, requested property identifier)
ResolvedDatatype ==
    get_datatype(iocb.ioResponse.objectIdentifier, request.propertyIdentifier)
Transform == cast_out(iocb.ioResponse.propertyValue, ResolvedDatatype)

\* C1: a read whose transaction is resolved with a response and no error
\* returns exactly the value the transform produces for that response
\* (and returns a value only when the transform produced one); None never
\* stands in for it.
C1_ReadReturnsTransform ==
    (callerPc = "done" /\ ResolvedWithResponse) =>
        /\ (ResolvedDatatype # "None" /\ Transform.raised = "") =>
               /\ callResult = Returned(Transform.value)
               /\ callResult.value # None
        /\ callResult.kind = "value" =>
               (ResolvedDatatype # "None" /\ Transform.raised = "")

C1_Witness ==
    /\ callerPc = "done" /\ ResolvedWithResponse
    /\ iocb.ioResponse.objectIdentifier # request.objectIdentifier
    /\ callResult = Returned(PyInt(1))

\* C2: a read whose transaction is resolved with an error returns None,
\* emits exactly one ERROR record, raises nothing, and its request is
\* handed to the transport exactly once.
C2_ErrorReadReturnsNone ==
    /\ submitted <= 1
    /\ ResolvedWithError => submitted = 1
    /\ (workerPc \in {"exit", "return", "done"} /\ ResolvedWithError) =>
           errorLog = <<iocb.ioError>>
    /\ (callerPc = "done" /\ ResolvedWithError) =>
           /\ callResult = Returned(None)
           /\ Len(errorLog) = 1

C2_Witness ==
    /\ callerPc = "done" /\ iocb.ioError = "timeout"
    /\ callResult = Returned(None) /\ submitted = 1

UnresolvedDatatype == ResolvedWithResponse /\ ResolvedDatatype = "None"

\* C3: when a read is resolved with a response for which no datatype is
\* known, the worker raises TypeError, the caller of the read gets that
\* exception and not None, and stop is still deferred, so that the caller's
\* run() returns and the call ends.
C3_UnresolvedDatatypeRaises ==
    /\ [](UnresolvedDatatype =>
            /\ workerPc \in {"exit", "return", "done"} =>
                   ret = Raised("TypeError")
            /\ workerPc \in {"return", "done"} => stopRequests = 1
            /\ workerPc = "done" => future = Raised("TypeError")
            /\ callerPc = "done" => callResult = Raised("TypeError"))
    /\ (UnresolvedDatatype ~> callerPc = "done")

C3_Witness ==
    /\ UnresolvedDatatype /\ callerPc = "done"
    /\ callResult = Raised("TypeError") /\ ~running

\* C10: every invocation of _init_iocb defers stop exactly once, after the
\* IOCB is complete and before the invocation returns, whichever way the
\* body ends (error, response, neither, callback raising).
C10_StopExactlyOnce ==
    /\ workerPc \in {"idle", "enter", "wait", "exit"} => stopRequests = 0
    /\ workerPc \in {"return", "done"} => stopRequests = 1 /\ iocb.ioComplete
    /\ stopRequests > 0 => iocb.ioComplete

C10_Witness ==
    /\ workerPc = "done" /\ future.kind = "exception"
    /\ stopRequests = 1 /\ iocb.ioComplete

\* C11: make_request_read_property returns only after run() has returned
\* because stop was requested and after the worker has completed, and what
\* it hands to its caller is the worker's outcome, whichever of the loop's
\* termination and the worker's completion comes first.
C11_ReturnsAfterLoopAndWorker ==
    /\ callerPc \in {"result", "done"} => ~running /\ stopRequests = 1
    /\ callerPc = "done" =>
           /\ workerPc = "done"
           /\ callResult.kind \in {"value", "exception"}
           /\ callResult = ret

C11_Witness ==
    /\ callerPc = "done" /\ workerPc = "done" /\ ~running
    /\ callResult = Returned(PyFloat(1)) /\ ret = callResult

\* C12: whether the worker defers request_io before or after the caller
\* enters run(), the request is handed to the transport by the loop, inside
\* run(), and once the transport has resolved the transaction the call
\* returns: no submission and no stop is lost, nobody waits for ever.
C12_SubmissionRunsAndCallReturns ==
    /\ [][submitted' # submitted =>
            callerPc = "run" /\ loopPc = "drain" /\ submitted' = 1]_vars
    /\ (workerPc = "wait" ~> submitted = 1)
    /\ (iocb.ioComplete ~> callerPc = "done")

C12_Witness ==
    /\ callerPc = "done" /\ submitted = 1 /\ deferredFns = <<>>
    /\ iocb.ioState = "completed" /\ iocb.ioResponse = NoResponse
    /\ callResult = Returned(None)

(***************************************************************************)
(* COV notifications.                                                      *)
(***************************************************************************)
\* how a peer encodes the value of a property: presentValue is a Real and
\* shedDuration an Unsigned, both application-tagged; requestedShedLevel is
\* a choice, which is context-tagged
ElementTag(propid) ==
    CASE propid = "presentValue" ->
             [cls |-> "app", num |-> "Real", data |-> 1]
      [] propid = "shedDuration" ->
             [cls |-> "app", num |-> "Unsigned", data |-> 1]
      [] OTHER -> [cls |-> "ctx", num |-> "0", data |-> 1]

\* a PropertyValue of listOfValues: property identifier and encoded value
Elements ==
    {[propertyIdentifier |-> p, value |-> <<ElementTag(p)>>] : p \in PropIds}

\* the COV notification requests a peer can send
Notifications ==
    [subscriberProcessIdentifier : ProcIds, pduSource : Addresses,
     monitoredObjectIdentifier : ObjIds,
     listOfValues : SeqUpTo(Elements, MaxElems)]

\* element.value.tagList[0].app_to_object() needs an application tag
Decodable(element) == element.value[1].cls = "app"

\* str(element.value.tagList[0].app_to_object().value), lines 143 and 149
DecodedStr(element) == str(AtomicValue(element.value[1]))

\* lines 146-149: the decoded values of the elements of the property
RECURSIVE Selected(_, _)
Selected(listOfValues, property_identifier) ==
    IF listOfValues = <<>> THEN <<>>
    ELSE LET element == Head(listOfValues)
             rest == Selected(Tail(listOfValues), property_identifier)
         IN  IF element.propertyIdentifier # property_identifier
             THEN rest
             ELSE <<DecodedStr(element)>> \o rest

(***************************************************************************)
(* SubscriptionContext.cov_notification (lines 137-149).  The debug record *)
(* of lines 138-145 decodes every element of the notification before the   *)
(* loop of line 146 starts, so one element without an application tag      *)
(* raises before anything is appended.                                     *)
(***************************************************************************)
cov_notification(context, apdu) ==
    IF \E i \in 1..Len(apdu.listOfValues) : ~Decodable(apdu.listOfValues[i])
    THEN [raised |-> "ValueError", context |-> context]
    ELSE [raised |-> "",
          context |-> [context EXCEPT !.value_list =
              @ \o Selected(apdu.listOfValues, context.property_identifier)]]

\* the lookup without the address test
LookupContext_noaddress(apdu) ==
    subscription_context[apdu.subscriberProcessIdentifier]

\* a lookup that also wants the notification to be about the object the
\* context monitors
LookupContext_sameobject(apdu) ==
    LET i == subscription_context[apdu.subscriberProcessIdentifier]
    IN  IF i = 0 \/ apdu.pduSource # contexts[i].address
           \/ apdu.monitoredObjectIdentifier #
                  contexts[i].monitoredObjectIdentifier
        THEN 0 ELSE i

\* lines 207-208 and 228-229: the context registered for the process
\* identifier, 0 when there is none or when it has another address
LookupContext(apdu) ==
    LET i == subscription_context[apdu.subscriberProcessIdentifier]
    IN  IF i = 0 \/ apdu.pduSource # contexts[i].address THEN 0 ELSE i

\* what Application.indication sends for a confirmed request whose helper
\* raised (comment of line 211)
ErrorFor(raised, invokeID) ==
    IF raised = "ExecutionError"
    THEN ErrorPDU(invokeID, "services", "unknownSubscription")
    ELSE ErrorPDU(invokeID, "device", "operationalProblem")

\* do_UnconfirmedCOVNotificationRequest that ends the session at the first
\* recorded value
do_UnconfirmedCOVNotificationRequest_earlystop(apdu) ==
    LET i == LookupContext(apdu)
    IN  /\ IF i = 0 THEN contexts' = contexts
           ELSE contexts' =
                  [contexts EXCEPT ![i] = cov_notification(@, apdu).context]
        /\ IF i # 0 /\ contexts'[i].value_list # <<>>
           THEN deferred("stop") /\ stopRequests' = stopRequests + 1
           ELSE UNCHANGED <<deferredFns, stopRequests>>
        /\ UNCHANGED <<subscription_context, response, running>>

(***************************************************************************)
(* SubscribeCOVApplication.do_UnconfirmedCOVNotificationRequest            *)
(* (lines 224-234).                                                        *)
(***************************************************************************)
do_UnconfirmedCOVNotificationRequest(apdu) ==
    LET i == LookupContext(apdu)
    IN  /\ IF i = 0 THEN contexts' = contexts
           ELSE contexts' =
                  [contexts EXCEPT ![i] = cov_notification(@, apdu).context]
        /\ UNCHANGED <<subscription_context, response, deferredFns, running,
                       stopRequests>>

\* do_ConfirmedCOVNotificationRequest that acknowledges an unknown
\* subscription instead of raising
do_ConfirmedCOVNotificationRequest_ackall(apdu, invokeID) ==
    LET i == LookupContext(apdu)
        r == cov_notification(contexts[i], apdu)
    IN  /\ IF i = 0
           THEN /\ contexts' = contexts
                /\ response' = SimpleAckPDU(invokeID)
           ELSE /\ contexts' = [contexts EXCEPT ![i] = r.context]
                /\ response' = IF r.raised = "" THEN SimpleAckPDU(invokeID)
                               ELSE ErrorFor(r.raised, invokeID)
        /\ UNCHANGED <<subscription_context, deferredFns, running,
                       stopRequests>>

(***************************************************************************)
(* SubscribeCOVApplication.do_ConfirmedCOVNotificationRequest              *)
(* (lines 203-222), with the response Application.indication sends when    *)
(* the helper raises.                                                      *)
(***************************************************************************)
do_ConfirmedCOVNotificationRequest(apdu, invokeID) ==
    LET i == LookupContext(apdu)
        r == cov_notification(contexts[i], apdu)
    IN  /\ IF i = 0
           THEN /\ contexts' = contexts
                /\ response' = ErrorFor("ExecutionError", invokeID)
           ELSE /\ contexts' = [contexts EXCEPT ![i] = r.context]
                /\ response' = IF r.raised = "" THEN SimpleAckPDU(invokeID)
                               ELSE ErrorFor(r.raised, invokeID)
        /\ UNCHANGED <<subscription_context, deferredFns, running,
                       stopRequests>>

\* the notification's process identifier is registered for context i and
\* its source is that context's address
Matches(apdu, i) ==
    /\ i \in 1..Len(contexts)
    /\ subscription_context[apdu.subscriberProcessIdentifier] = i
    /\ apdu.pduSource = contexts[i].address

\* the decoded values of the decodable elements of the property
RECURSIVE DecodableSelected(_, _)
DecodableSelected(listOfValues, property_identifier) ==
    IF listOfValues = <<>> THEN <<>>
    ELSE LET element == Head(listOfValues)
             rest == DecodableSelected(Tail(listOfValues),
                                       property_identifier)
         IN  IF element.propertyIdentifier = property_identifier
                /\ Decodable(element)
             THEN <<DecodedStr(element)>> \o rest
             ELSE rest

\* the application receives one notification from the socket and calls the
\* helper for it; the history variables record what was delivered and
\* which notification put each value where
Deliver(apdu, confirmed) ==
    /\ nDelivered < MaxNotif
    /\ nDelivered' = nDelivered + 1
    /\ IF confirmed
       THEN do_ConfirmedCOVNotificationRequest(apdu, nDelivered + 1)
       ELSE do_UnconfirmedCOVNotificationRequest(apdu)
    /\ origins' = [i \in 1..Len(contexts) |->
          origins[i] \o
          [k \in 1..(Len(contexts'[i].value_list)
                     - Len(contexts[i].value_list)) |->
              [subscriberProcessIdentifier |->
                   apdu.subscriberProcessIdentifier,
               pduSource |-> apdu.pduSource,
               registered |->
                   subscription_context[apdu.subscriberProcessIdentifier]]]]
    /\ lastNotification' =
          [kind |-> IF confirmed THEN "confirmed" ELSE "unconfirmed",
           pidKnown |->
               subscription_context[apdu.subscriberProcessIdentifier] # 0,
           matched |-> \E i \in 1..Len(contexts) : Matches(apdu, i)]


(***************************************************************************)
(* SubscriptionContext.__init__ (lines 120-135): the new context takes the *)
(* registry slot of its process identifier.                                *)
(***************************************************************************)
NewContext(address, objid, property_identifier, confirmed, lifetime, proc_id) ==
    [address |-> address,
     property_identifier |-> property_identifier,
     subscriberProcessIdentifier |-> proc_id,
     monitoredObjectIdentifier |-> objid,
     issueConfirmedNotifications |-> confirmed,
     lifetime |-> lifetime,
     value_list |-> <<>>]

\* __init__ that keeps an entry the registry already has
Register_keepfirst(context) ==
    /\ contexts' = Append(contexts, context)
    /\ origins' = Append(origins, <<>>)
    /\ subscription_context' =
          IF subscription_context[context.subscriberProcessIdentifier] # 0
          THEN subscription_context
          ELSE [subscription_context EXCEPT
                   ![context.subscriberProcessIdentifier] = Len(contexts) + 1]

Register(context) ==
    /\ contexts' = Append(contexts, context)
    /\ origins' = Append(origins, <<>>)
    /\ subscription_context' =
          [subscription_context EXCEPT
              ![context.subscriberProcessIdentifier] = Len(contexts) + 1]

(***************************************************************************)
(* do_cov_subscription (lines 269-289) and run_bacpypes_for_x_seconds      *)
(* (lines 237-255), caller thread.                                         *)
(***************************************************************************)
\* lines 273-285: registry, client, context, deferred send_subscription
CovSetup ==
    /\ covPc = "init"
    /\ \E duration \in 0..MaxDuration :
          /\ x' = duration
          /\ Register(NewContext("dev", "analogValue:1", "presentValue",
                                 FALSE, duration, DefaultProcId))
    /\ deferred("send_subscription")
    /\ covPc' = "timer"
    /\ UNCHANGED <<running, loopPc, readVars, procVars, errorLog, stopRequests, wdPc,
                   now, start_time, response, nDelivered, lastNotification,
                   expected, subIocb, returned>>

\* lines 239-251: start_time is read and the watchdog thread is started
CovStartTimer ==
    /\ covPc = "timer"
    /\ start_time' = now
    /\ wdPc' = "check"
    /\ covPc' = "enter"
    /\ UNCHANGED <<loopVars, readVars, procVars, errorLog, stopRequests, x, now,
                   regVars, subIocb, returned>>

\* line 253: run()
CovRun ==
    /\ covPc = "enter"
    /\ running' = TRUE
    /\ loopPc' = "top"
    /\ covPc' = "run"
    /\ UNCHANGED <<deferredFns, readVars, procVars, errorLog, stopRequests, wdPc,
                   timeVars, regVars, subIocb, returned>>

\* running is false at the test of the loop: run() returns to line 254
CovRunReturn ==
    /\ covPc = "run" /\ loopPc = "top" /\ ~running
    /\ covPc' = "join"
    /\ UNCHANGED <<loopVars, readVars, procVars, errorLog, stopRequests, wdPc,
                   timeVars, regVars, subIocb, returned>>

\* lines 254-289: the watchdog is joined and the context's values returned
CovJoin ==
    /\ covPc = "join"
    /\ wdPc = "done"
    /\ returned' = contexts[1].value_list
    /\ covPc' = "done"
    /\ UNCHANGED <<loopVars, readVars, procVars, errorLog, stopRequests, wdPc,
                   timeVars, regVars, subIocb>>

(***************************************************************************)
(* stop_after_x_seconds (lines 241-248), watchdog thread.                  *)
(***************************************************************************)
\* the watchdog stopping as soon as the elapsed time reaches x + 1
WdCheck_atleast ==
    /\ wdPc = "check"
    /\ IF now - start_time >= x + 1
       THEN /\ deferred("stop")
            /\ stopRequests' = stopRequests + 1
            /\ wdPc' = "done"
       ELSE /\ wdPc' = "sleep"
            /\ UNCHANGED <<deferredFns, stopRequests>>
    /\ UNCHANGED <<running, loopPc, readVars, procVars, errorLog, covPc, timeVars,
                   regVars, subIocb, returned>>

\* lines 244-247: one test of the elapsed time, then stop or sleep
WdCheck ==
    /\ wdPc = "check"
    /\ IF now - start_time > x + 1
       THEN /\ deferred("stop")
            /\ stopRequests' = stopRequests + 1
            /\ wdPc' = "done"
       ELSE /\ wdPc' = "sleep"
            /\ UNCHANGED <<deferredFns, stopRequests>>
    /\ UNCHANGED <<running, loopPc, readVars, procVars, errorLog, covPc, timeVars,
                   regVars, subIocb, returned>>

\* line 248: time.sleep(1) returns; at least a second has passed, and the
\* sleep may have lasted longer than asked for
WdSleep ==
    /\ wdPc = "sleep"
    /\ \E overshoot \in 0..MaxOvershoot :
          now' = now + PollInterval + overshoot
    /\ wdPc' = "check"
    /\ UNCHANGED <<loopVars, readVars, procVars, errorLog, stopRequests, covPc, x,
                   start_time, regVars, subIocb, returned>>

(***************************************************************************)
(* The thread inside run() during a subscription session.                  *)
(***************************************************************************)
\* line 285 executed by the loop: send_subscription (lines 168-190) hands
\* the SubscribeCOVRequest to the transport
DrainSendSubscription ==
    /\ InRun /\ loopPc = "drain"
    /\ deferredFns # <<>> /\ Head(deferredFns) = "send_subscription"
    /\ deferredFns' = Tail(deferredFns)
    /\ subIocb' = "pending"
    /\ UNCHANGED <<running, loopPc, readVars, procVars, errorLog, stopRequests, covPc,
                   wdPc, timeVars, regVars, returned>>

\* subscription_acknowledged that gives the session up when the
\* subscription is refused
subscription_acknowledged_giveup ==
    /\ covPc = "run" /\ loopPc = "top" /\ running
    /\ subIocb = "pending"
    /\ subIocb' \in {"response", "error"}
    /\ IF subIocb' = "error"
       THEN deferred("stop") /\ stopRequests' = stopRequests + 1
       ELSE UNCHANGED <<deferredFns, stopRequests>>
    /\ loopPc' = "drain"
    /\ UNCHANGED <<running, readVars, procVars, errorLog,
                   covPc, wdPc, timeVars, regVars, returned>>

\* the transport resolves the subscription request; the callback
\* subscription_acknowledged (lines 192-201) only writes debug records
subscription_acknowledged ==
    /\ covPc = "run" /\ loopPc = "top" /\ running
    /\ subIocb = "pending"
    /\ subIocb' \in {"response", "error"}
    /\ loopPc' = "drain"
    /\ UNCHANGED <<running, deferredFns, readVars, procVars, errorLog, stopRequests,
                   covPc, wdPc, timeVars, regVars, returned>>

\* notifications handled by a loop that is not tied to run(): they are
\* still delivered after run() has returned to the caller
CovDeliver_afterreturn ==
    /\ covPc \in {"run", "join"} /\ loopPc = "top"
    /\ \E apdu \in Notifications, confirmed \in BOOLEAN :
          /\ Deliver(apdu, confirmed)
          /\ expected' =
                IF Matches(apdu, 1)
                THEN expected \o
                     DecodableSelected(apdu.listOfValues,
                                       contexts[1].property_identifier)
                ELSE expected
    /\ loopPc' = "drain"
    /\ UNCHANGED <<readVars, procVars, errorLog, covPc, wdPc, timeVars, subIocb,
                   returned>>

\* while running: a notification arrives in one more pass
CovDeliver ==
    /\ covPc = "run" /\ loopPc = "top" /\ running
    /\ \E apdu \in Notifications, confirmed \in BOOLEAN :
          /\ Deliver(apdu, confirmed)
          /\ expected' =
                IF Matches(apdu, 1)
                THEN expected \o
                     DecodableSelected(apdu.listOfValues,
                                       contexts[1].property_identifier)
                ELSE expected
    /\ loopPc' = "drain"
    /\ UNCHANGED <<readVars, procVars, errorLog, covPc, wdPc, timeVars, subIocb,
                   returned>>

ReadIdle ==
    /\ callerPc = "idle" /\ workerPc = "idle"
    /\ request = [objectIdentifier |-> "analogValue",
                  propertyIdentifier |-> "presentValue"]
    /\ iocb = [ioState |-> "idle", ioError |-> "", ioResponse |-> NoResponse,
               ioComplete |-> FALSE]
    /\ ret = NoOutcome /\ future = NoOutcome /\ callResult = NoOutcome
    /\ submitted = 0

\* one do_cov_subscription call
CovInit ==
    /\ running = FALSE /\ deferredFns = <<>> /\ loopPc = "top"
    /\ ReadIdle
    /\ errorLog = <<>> /\ stopRequests = 0
    /\ covPc = "init" /\ wdPc = "idle"
    /\ x = 0 /\ now = 0 /\ start_time = 0
    /\ subscription_context = [p \in ProcIds |-> 0]
    /\ contexts = <<>>
    /\ subIocb = "idle"
    /\ response = NoPDU /\ nDelivered = 0
    /\ lastNotification = NoNotification
    /\ expected = <<>> /\ origins = <<>>
    /\ returned = <<>>
    /\ ProcIdle

CovNext ==
    \/ CovSetup \/ CovStartTimer \/ CovRun \/ CovRunReturn \/ CovJoin
    \/ WdCheck \/ WdSleep
    \/ LoopIdle \/ DrainStop \/ DrainDone
    \/ DrainSendSubscription \/ subscription_acknowledged \/ CovDeliver

CovSpec == CovInit /\ [][CovNext]_vars


(***************************************************************************)
(* The registry and the dispatcher on their own: contexts are created on   *)
(* one registry (lines 119-135) and notifications are handed to the        *)
(* application (lines 203-234) in any order.                               *)
(***************************************************************************)
RegInit ==
    /\ running = TRUE /\ deferredFns = <<>> /\ loopPc = "top"
    /\ ReadIdle
    /\ errorLog = <<>> /\ stopRequests = 0
    /\ covPc = "registry" /\ wdPc = "idle"
    /\ x = 0 /\ now = 0 /\ start_time = 0
    /\ subscription_context = [p \in ProcIds |-> 0]
    /\ contexts = <<>>
    /\ subIocb = "idle"
    /\ response = NoPDU /\ nDelivered = 0
    /\ lastNotification = NoNotification
    /\ expected = <<>> /\ origins = <<>>
    /\ returned = <<>>
    /\ ProcIdle

RegRegister ==
    /\ covPc = "registry"
    /\ Len(contexts) < MaxCtx
    /\ \E address \in Addresses, proc_id \in ProcIds :
          Register(NewContext(address, "analogValue:1", "presentValue",
                              FALSE, 20, proc_id))
    /\ UNCHANGED <<loopVars, readVars, procVars, errorLog, stopRequests, covPc, wdPc,
                   timeVars, response, nDelivered, lastNotification,
                   expected, subIocb, returned>>

RegDeliver ==
    /\ covPc = "registry"
    /\ \E apdu \in Notifications, confirmed \in BOOLEAN :
          Deliver(apdu, confirmed)
    /\ UNCHANGED <<loopPc, readVars, procVars, errorLog, covPc, wdPc, timeVars,
                   expected, subIocb, returned>>

RegNext == RegRegister \/ RegDeliver

RegSpec == RegInit /\ [][RegNext]_vars


(***************************************************************************)
(* Properties of the registry and the dispatcher.                          *)
(***************************************************************************)
\* C4: every value of a context's value sequence was appended by a
\* notification (confirmed or unconfirmed) whose process identifier was, at
\* that time, a key of the registry mapping to that context and whose
\* source address was that context's address.
C4_AttributionNeedsIdAndAddress ==
    \A i \in 1..Len(contexts) :
        /\ Len(origins[i]) = Len(contexts[i].value_list)
        /\ \A k \in 1..Len(origins[i]) :
              /\ origins[i][k].registered = i
              /\ origins[i][k].subscriberProcessIdentifier =
                     contexts[i].subscriberProcessIdentifier
              /\ origins[i][k].pduSource = contexts[i].address

C4_Witness ==
    /\ Len(contexts) = 2
    /\ contexts[1].value_list # <<>> /\ contexts[2].value_list # <<>>
    /\ contexts[1].address # contexts[2].address
    /\ nDelivered = 2 /\ response = SimpleAckPDU(1)
    /\ lastNotification.kind = "unconfirmed"

\* a step that hands one notification to the application
Delivery == nDelivered' = nDelivered + 1

\* C5: a confirmed notification whose process identifier is not registered,
\* or is registered for a context with another address, is answered with an
\* unknownSubscription error and changes no context and not the registry;
\* an unconfirmed one is not answered and changes nothing either.
C5_MismatchRejectedOrDropped ==
    [][(Delivery /\ ~lastNotification'.matched) =>
          /\ contexts' = contexts
          /\ subscription_context' = subscription_context
          /\ lastNotification'.kind = "confirmed" =>
                response' =
                    ErrorPDU(nDelivered', "services", "unknownSubscription")
          /\ lastNotification'.kind = "unconfirmed" =>
                response' = response]_vars

C5_Witness ==
    /\ lastNotification.kind = "confirmed"
    /\ lastNotification.pidKnown /\ ~lastNotification.matched
    /\ response = ErrorPDU(2, "services", "unknownSubscription")
    /\ Len(contexts) = 1 /\ contexts[1].value_list # <<>>

\* C9: once a second context is created with the process identifier of an
\* earlier one, the registry maps the identifier to the later context only,
\* and no notification changes the earlier context any more.
Superseded(i) ==
    \E j \in (i + 1)..Len(contexts) :
        contexts[j].subscriberProcessIdentifier =
            contexts[i].subscriberProcessIdentifier

OwnObject == "analogValue:1"
AboutOwnObject ==
    {apdu \in Notifications : apdu.monitoredObjectIdentifier = OwnObject}
About(apdu, objid) == [apdu EXCEPT !.monitoredObjectIdentifier = objid]

\* C20: what the application does with a notification does not depend on
\* its monitoredObjectIdentifier: a notification about another object than
\* the one the context monitors is attributed to the same context as the
\* notification about the monitored object, and cov_notification appends
\* the same elements for it.
C20_AttributionIgnoresObject ==
    \A apdu \in AboutOwnObject, objid \in ObjIds \ {OwnObject} :
        LET i == LookupContext(apdu)
        IN  /\ LookupContext(About(apdu, objid)) = i
            /\ i # 0 =>
                  /\ contexts[i].monitoredObjectIdentifier = OwnObject
                  /\ cov_notification(contexts[i], About(apdu, objid))
                         = cov_notification(contexts[i], apdu)

\* a context that has values, and a notification about another object
\* for which the application finds this context and cov_notification
\* appends the target element
C20_Witness ==
    /\ Len(contexts) = 1 /\ nDelivered = 1
    /\ lastNotification.matched /\ contexts[1].value_list = <<"1.0">>
    /\ \E apdu \in Notifications :
          /\ apdu.monitoredObjectIdentifier #
                 contexts[1].monitoredObjectIdentifier
          /\ Len(apdu.listOfValues) = MaxElems
          /\ LookupContext(apdu) = 1
          /\ cov_notification(contexts[1], apdu).context.value_list =
                 <<"1.0", "1.0">>

\* C13: a confirmed notification is answered exactly once, with a simple
\* acknowledgement carrying its invoke id if and only if it matched a
\* registered context, and with an unknownSubscription error otherwise; an
\* unconfirmed notification is never answered.
C13_ConfirmedAnsweredAckIffMatched ==
    [][Delivery =>
          IF lastNotification'.kind = "confirmed"
          THEN response' =
                   IF lastNotification'.matched
                   THEN SimpleAckPDU(nDelivered')
                   ELSE ErrorPDU(nDelivered', "services",
                                 "unknownSubscription")
          ELSE response' = response]_vars

(***************************************************************************)
(* Properties of a subscription session.                                   *)
(***************************************************************************)
\* C6: the sequence do_cov_subscription returns is, in arrival order, the
\* decoded strings of exactly those delivered elements whose property is
\* the target property and whose notification matched the registered
\* context.
C6_ReturnsMatchingValues ==
    covPc = "done" => returned = expected

elapsed == now - start_time

\* C7 as stated: the call returns with D <= elapsed <= D + pollInterval + 1.
C7_ElapsedWithinPollInterval ==
    covPc = "done" => x <= elapsed /\ elapsed <= x + PollInterval + 1

\* C7: the watchdog defers stop at the first of its tests at which
\* elapsed > D + 1 and at no test at which elapsed <= D + 1, so the call
\* returns with elapsed > D + 1; the elapsed time then exceeds
\* D + 1 + pollInterval by at most what the last sleep lasted too long.
C7_StopAtFirstPollPastDeadline ==
    /\ [][(wdPc = "check" /\ wdPc' # "check") =>
            IF elapsed > x + 1
            THEN wdPc' = "done" /\ stopRequests' = stopRequests + 1
            ELSE wdPc' = "sleep" /\ stopRequests' = stopRequests]_vars
    /\ [](wdPc = "done" =>
            /\ elapsed > x + 1
            /\ elapsed <= x + 1 + PollInterval + MaxOvershoot)
    /\ [](covPc \in {"join", "done"} => elapsed > x + 1)

C7_Witness ==
    /\ covPc = "done" /\ x = 1
    /\ elapsed = x + 1 + PollInterval + MaxOvershoot

\* C8: no notification, whatever its kind and whether it matches, defers
\* stop or stops the loop; the watchdog is the only one to request stop in
\* a session, so values keep being appended after the first one.
C8_NotificationsNeverStop ==
    /\ [][Delivery =>
            UNCHANGED <<stopRequests, deferredFns, running>>]_vars
    /\ [][stopRequests' # stopRequests =>
            wdPc = "check" /\ wdPc' = "done" /\ ~Delivery]_vars
    /\ [](stopRequests <= 1)

C8_Witness ==
    /\ covPc = "run" /\ running /\ stopRequests = 0
    /\ nDelivered = 2
    /\ Len(contexts[1].value_list) > MaxElems

\* C19: when the subscription request is resolved with an error, or is
\* not resolved at all, the session goes on as if it had been acknowledged:
\* resolving it neither stops the loop nor ends the call, the call returns
\* only after the watchdog's timeout, and it returns the values the context
\* has accumulated.
C19_SubscriptionErrorKeepsSession ==
    /\ [][(subIocb = "pending" /\ subIocb' # subIocb) =>
            UNCHANGED <<running, deferredFns, stopRequests, covPc, wdPc,
                        contexts, returned>>]_vars
    /\ []((covPc \in {"join", "done"} /\ subIocb # "response") =>
            elapsed > x + 1 /\ wdPc = "done" /\ stopRequests = 1)
    /\ []((covPc = "done" /\ subIocb # "response") =>
            returned = contexts[1].value_list)

C19_Witness ==
    /\ covPc = "done" /\ subIocb = "error"
    /\ elapsed > x + 1 /\ returned # <<>>

(***************************************************************************)
(* A process whose threads call the facade: get_property_value (lines      *)
(* 258-266), do_cov_subscription (lines 269-289) and                       *)
(* make_request_read_property_multiple (lines 108-116), one call after     *)
(* another in each thread.  running and deferredFns are the module globals *)
(* of bacpypes.core, shared by every call of the process; a deferred       *)
(* function is queued with the session that deferred it.  What a session   *)
(* reads and how long it lasts is modelled above; here a transaction is    *)
(* idle, pending or complete and the watchdog's timeout simply comes.      *)
(***************************************************************************)
\* the variables of the single-call models
singleVars == <<loopPc, readVars, errorLog, covVars>>

\* "{}/24:47910" (line 262) and "{}/24:47911" (line 275)
ReadPort == 47910
CovPort == 47911

NewSession(kind, t) ==
    [kind |-> kind, thread |-> t, iocb |-> "idle", stops |-> 0,
     endedBy |-> 0, outcome |-> "none", stopPending |-> FALSE]

\* the session thread t is in
Sid(t) == th[t].sid
KindOf(t) == IF Sid(t) = 0 THEN "none" ELSE sessions[Sid(t)].kind

deferredBy(fn, s) ==
    deferredFns' = Append(deferredFns, [fn |-> fn, session |-> s])

\* the call of thread t ends: its client is not used any more (the source
\* never closes its socket; the binding is taken to end here, the earliest
\* it can)
Return(t) ==
    /\ bound' = {b \in bound : b.session # Sid(t)}
    /\ sessions' = [sessions EXCEPT
          ![Sid(t)].outcome = "returned",
          ![Sid(t)].stopPending =
              \E i \in 1..Len(deferredFns) : deferredFns[i].fn = "stop"]
    /\ th' = [th EXCEPT ![t] = [NoThread EXCEPT !.pc = "idle",
                                               !.left = th[t].left - 1]]

\* BACnetClient(local_address) / SubscribeCOVApplication(..., local_address):
\* the constructor binds the port; binding a port a live client holds
\* raises OSError and ends the call
Construct(t, kind, port, pc) ==
    IF \E b \in bound : b.port = port
    THEN /\ sessions' = Append(sessions, [NewSession(kind, t) EXCEPT
                                              !.outcome = "OSError"])
         /\ th' = [th EXCEPT ![t].left = @ - 1]
         /\ UNCHANGED bound
    ELSE /\ sessions' = Append(sessions, NewSession(kind, t))
         /\ bound' = bound \cup
                {[session |-> Len(sessions) + 1, port |-> port]}
         /\ th' = [th EXCEPT ![t].pc = pc, ![t].sid = Len(sessions) + 1]

\* lines 261-265
get_property_value(t) ==
    /\ th[t].pc = "idle" /\ th[t].left > 0
    /\ Construct(t, "read", ReadPort, "submit")
    /\ UNCHANGED <<running, deferredFns, stopRequests, lastStop, singleVars>>

\* lines 273-285
do_cov_subscription(t) ==
    /\ th[t].pc = "idle" /\ th[t].left > 0
    /\ Construct(t, "cov", CovPort, "timer")
    /\ IF th'[t].pc = "timer"
       THEN deferredBy("send_subscription", Len(sessions) + 1)
       ELSE UNCHANGED deferredFns
    /\ UNCHANGED <<running, stopRequests, lastStop, singleVars>>

\* lines 110-111, on a client the caller has constructed
make_request_read_property_multiple(t) ==
    /\ th[t].pc = "idle" /\ th[t].left > 0
    /\ sessions' = Append(sessions, NewSession("rpm", t))
    /\ th' = [th EXCEPT ![t].pc = "submit", ![t].sid = Len(sessions) + 1]
    /\ UNCHANGED <<running, deferredFns, stopRequests, lastStop, bound,
                   singleVars>>

\* lines 104 and 114: executor.submit starts the worker
executor_submit(t) ==
    /\ th[t].pc = "submit"
    /\ th' = [th EXCEPT ![t].pc = "enter", ![t].helper = "enter"]
    /\ UNCHANGED <<running, deferredFns, stopRequests, lastStop, sessions,
                   bound, singleVars>>

\* lines 239-251: the watchdog thread is started
thread_start(t) ==
    /\ th[t].pc = "timer"
    /\ th' = [th EXCEPT ![t].pc = "enter", ![t].helper = "poll"]
    /\ UNCHANGED <<running, deferredFns, stopRequests, lastStop, sessions,
                   bound, singleVars>>

\* lines 105, 115 and 253: run() sets running and loops while it is set
run(t) ==
    /\ th[t].pc = "enter"
    /\ running' = TRUE
    /\ th' = [th EXCEPT ![t].pc = "run", ![t].loop = "top"]
    /\ UNCHANGED <<deferredFns, stopRequests, lastStop, sessions, bound,
                   singleVars>>


\* a thread inside run(): one pass of the loop in which nothing happens
PassIdle(t) ==
    /\ th[t].pc = "run" /\ th[t].loop = "top" /\ running
    /\ th' = [th EXCEPT ![t].loop = "drain"]
    /\ UNCHANGED <<running, deferredFns, stopRequests, lastStop, sessions,
                   bound, singleVars>>

\* one pass of the loop in which the transport resolves a transaction
PassResolve(t) ==
    /\ th[t].pc = "run" /\ th[t].loop = "top" /\ running
    /\ \E s \in 1..Len(sessions) :
          /\ sessions[s].iocb = "pending"
          /\ sessions' = [sessions EXCEPT ![s].iocb = "complete"]
    /\ th' = [th EXCEPT ![t].loop = "drain"]
    /\ UNCHANGED <<running, deferredFns, stopRequests, lastStop, bound,
                   singleVars>>

\* the loop calls the deferred functions in the order they were queued;
\* stop() clears running
DrainFn(t) ==
    /\ th[t].pc = "run" /\ th[t].loop = "drain"
    /\ deferredFns # <<>>
    /\ deferredFns' = Tail(deferredFns)
    /\ LET f == Head(deferredFns)
       IN  CASE f.fn = "request_io" ->
                  /\ sessions' = [sessions EXCEPT ![f.session].iocb = "pending"]
                  /\ UNCHANGED <<running, lastStop>>
             [] f.fn = "stop" ->
                  /\ running' = FALSE
                  /\ lastStop' = f.session
                  /\ UNCHANGED sessions
             [] OTHER -> UNCHANGED <<running, lastStop, sessions>>
    /\ UNCHANGED <<th, stopRequests, bound, singleVars>>

DrainEnd(t) ==
    /\ th[t].pc = "run" /\ th[t].loop = "drain"
    /\ deferredFns = <<>>
    /\ th' = [th EXCEPT ![t].loop = "top"]
    /\ UNCHANGED <<running, deferredFns, stopRequests, lastStop, sessions,
                   bound, singleVars>>

\* running is false at the test of the loop: run() returns
run_returns(t) ==
    /\ th[t].pc = "run" /\ th[t].loop = "top" /\ ~running
    /\ th' = [th EXCEPT ![t].pc = IF KindOf(t) = "cov" THEN "join"
                                  ELSE "result"]
    /\ sessions' = [sessions EXCEPT ![Sid(t)].endedBy = lastStop]
    /\ UNCHANGED <<running, deferredFns, stopRequests, lastStop, bound,
                   singleVars>>

\* line 44, worker of a read
Iocb_enter(t) ==
    /\ th[t].helper = "enter" /\ KindOf(t) = "read"
    /\ deferredBy("request_io", Sid(t))
    /\ th' = [th EXCEPT ![t].helper = "wait"]
    /\ UNCHANGED <<running, stopRequests, lastStop, sessions, bound,
                   singleVars>>

\* line 114 submits _do_read_property with the request only: the call lacks
\* property_identifier and raises TypeError before the body is entered
do_read_property_TypeError(t) ==
    /\ th[t].helper = "enter" /\ KindOf(t) = "rpm"
    /\ th' = [th EXCEPT ![t].helper = "raised"]
    /\ UNCHANGED <<running, deferredFns, stopRequests, lastStop, sessions,
                   bound, singleVars>>

\* line 45 and the body of the with-statement
Iocb_wait(t) ==
    /\ th[t].helper = "wait"
    /\ sessions[Sid(t)].iocb = "complete"
    /\ th' = [th EXCEPT ![t].helper = "exit"]
    /\ UNCHANGED <<running, deferredFns, stopRequests, lastStop, sessions,
                   bound, singleVars>>

\* a bridge that defers stop when the body ends and once more in __exit__
Iocb_exit_twice(t) ==
    /\ th[t].helper \in {"exit", "exit2"}
    /\ deferredBy("stop", Sid(t))
    /\ stopRequests' = stopRequests + 1
    /\ sessions' = [sessions EXCEPT ![Sid(t)].stops = @ + 1]
    /\ th' = [th EXCEPT ![t].helper = IF @ = "exit" THEN "exit2" ELSE "done"]
    /\ UNCHANGED <<running, lastStop, bound, singleVars>>

\* line 48
Iocb_exit(t) ==
    /\ th[t].helper = "exit"
    /\ deferredBy("stop", Sid(t))
    /\ stopRequests' = stopRequests + 1
    /\ sessions' = [sessions EXCEPT ![Sid(t)].stops = @ + 1]
    /\ th' = [th EXCEPT ![t].helper = "done"]
    /\ UNCHANGED <<running, lastStop, bound, singleVars>>

\* lines 244-247 once the time is up
stop_after_x_seconds(t) ==
    /\ th[t].helper = "poll"
    /\ deferredBy("stop", Sid(t))
    /\ stopRequests' = stopRequests + 1
    /\ sessions' = [sessions EXCEPT ![Sid(t)].stops = @ + 1]
    /\ th' = [th EXCEPT ![t].helper = "done"]
    /\ UNCHANGED <<running, lastStop, bound, singleVars>>

\* lines 106 and 116: future.result() once the worker has ended
future_result(t) ==
    /\ th[t].pc = "result"
    /\ th[t].helper \in {"done", "raised"}
    /\ Return(t)
    /\ UNCHANGED <<running, deferredFns, stopRequests, lastStop, singleVars>>

\* lines 254-289: thread.join() once the watchdog has ended
thread_join(t) ==
    /\ th[t].pc = "join"
    /\ th[t].helper = "done"
    /\ Return(t)
    /\ UNCHANGED <<running, deferredFns, stopRequests, lastStop, singleVars>>

ProcNext ==
    \E t \in Threads :
        \/ get_property_value(t) \/ do_cov_subscription(t)
        \/ make_request_read_property_multiple(t)
        \/ executor_submit(t) \/ thread_start(t) \/ run(t)
        \/ PassIdle(t) \/ PassResolve(t) \/ DrainFn(t) \/ DrainEnd(t)
        \/ run_returns(t)
        \/ Iocb_enter(t) \/ do_read_property_TypeError(t)
        \/ Iocb_wait(t) \/ Iocb_exit(t) \/ stop_after_x_seconds(t)
        \/ future_result(t) \/ thread_join(t)

ProcStart ==
    /\ running = FALSE /\ deferredFns = <<>> /\ loopPc = "top"
    /\ ReadIdle
    /\ errorLog = <<>> /\ stopRequests = 0
    /\ CovIdle
    /\ sessions = <<>> /\ bound = {} /\ lastStop = 0

\* main() (src/main.py lines 15-17): one thread calls the facade, one call
\* after the other
SeqInit ==
    /\ ProcStart
    /\ th = [t \in Threads |->
                IF t = 1 THEN [NoThread EXCEPT !.pc = "idle", !.left = MaxCalls]
                ELSE NoThread]

SeqSpec == SeqInit /\ [][ProcNext]_vars

\* the facade is called from several threads of the process
ParInit ==
    /\ ProcStart
    /\ th = [t \in Threads |->
                [NoThread EXCEPT !.pc = "idle", !.left = MaxCalls]]

ParSpec == ParInit /\ [][ProcNext]_vars

\* C14: in a session the registry and the value sequence are touched by
\* one thread at a time: the context is registered by the caller before
\* the loop and the watchdog are started, values are appended only by the
\* thread inside run() while the loop runs, no step of the watchdog touches
\* them, and the caller reads the values only when run() has returned and
\* the watchdog has ended.
C14_OneThreadAtATime ==
    /\ [][subscription_context' # subscription_context =>
            covPc = "init" /\ ~running /\ wdPc = "idle"]_vars
    /\ [][(contexts' # contexts /\ covPc # "init") =>
            /\ covPc = "run" /\ running /\ Delivery
            /\ wdPc' = wdPc /\ covPc' = covPc]_vars
    /\ [][wdPc' # wdPc =>
            UNCHANGED <<contexts, subscription_context, returned>>]_vars
    /\ [][returned' # returned =>
            /\ covPc = "join" /\ wdPc = "done" /\ ~running
            /\ returned' = contexts[1].value_list
            /\ contexts' = contexts]_vars
    /\ [](covPc \in {"join", "done"} => ~running)

C14_Witness ==
    /\ covPc = "done" /\ wdPc = "done" /\ ~running
    /\ subIocb = "response" /\ nDelivered = 2
    /\ returned # <<>> /\ returned = contexts[1].value_list

(***************************************************************************)
(* Properties of a process that calls the facade several times.            *)
(***************************************************************************)
InRunLoop == {t \in Threads : th[t].pc = "run"}

\* C15: at any time at most one session is inside run(), also when the
\* facade is called from several threads, and the run() of a session is
\* never ended by the stop another session requested.
C15_OneSessionRunsLoop ==
    /\ Cardinality(InRunLoop) <= 1
    /\ \A s \in 1..Len(sessions) : sessions[s].endedBy \in {0, s}

\* C16: no two clients that are live at the same time hold the same local
\* port, and no call, repeated or overlapping another one, fails because
\* the port of its client is already bound.
C16_NoBindCollision ==
    /\ \A b1, b2 \in bound : b1.port = b2.port => b1 = b2
    /\ \A s \in 1..Len(sessions) : sessions[s].outcome # "OSError"

\* C17: the worker of make_request_read_property_multiple defers stop on
\* every way it ends, so that the run() of its caller is left.
C17_ReadMultipleWorkerDefersStop ==
    \A t \in Threads :
        (KindOf(t) = "rpm" /\ th[t].helper \in {"done", "raised"}) =>
            sessions[Sid(t)].stops >= 1

\* C18: when the facade calls are made one after another, the run() of each
\* session is ended by the stop that session deferred, each session that
\* returns has deferred stop exactly once, and no stop is left in the queue
\* when a call returns, so that the next run() is not ended by it.
C18_EachSessionEndsItself ==
    /\ \A s \in 1..Len(sessions) :
          /\ sessions[s].endedBy \in {0, s}
          /\ sessions[s].outcome = "returned" =>
                /\ sessions[s].endedBy = s
                /\ sessions[s].stops = 1
                /\ ~sessions[s].stopPending
    /\ \A t \in Threads :
          th[t].pc = "idle" =>
              \A i \in 1..Len(deferredFns) : deferredFns[i].fn # "stop"

C18_Witness ==
    /\ Len(sessions) = 2
    /\ sessions[1].kind = "read" /\ sessions[2].kind = "cov"
    /\ sessions[1].outcome = "returned" /\ sessions[2].outcome = "returned"
    /\ sessions[1].endedBy = 1 /\ sessions[2].endedBy = 2
    /\ stopRequests = 2

====
